---- MODULE Spec2Model ----
(***************************************************************************)
(* Model of dsp/modules/llm.py: the LLM client.  One client owns a         *)
(* mutable llm_params object; the history list is the class attribute      *)
(* LLM.history.  A call of __call__ is a sequence of steps of one caller   *)
(* thread; litellm.completion is the only blocking step.                   *)
(***************************************************************************)
EXTENDS Naturals, Sequences, FiniteSets, TLC

\* ------------------------------------------------------------------ bounds
MaxCalls == 2
MaxChoices == 3

\* ------------------------------------------------------------------ inputs
Clients == {"c1", "c2"}
Threads == {"t1", "t2"}
Prompts == {"p1", "p2"}

ChatMessage(role, content) == [role |-> role, content |-> content]

NoneMessages == [is_none |-> TRUE, items |-> <<>>]
ListMessages(items) == [is_none |-> FALSE, items |-> items]

\* The LLMModelParams objects a client is constructed with.
Configs ==
    { [prompt |-> "None", messages |-> m, only_completed |-> TRUE,
       return_sorted |-> rs, logprobs |-> lp,
       model |-> "gpt", temperature |-> "0.7", api_key |-> "sk"] :
        m \in {NoneMessages, ListMessages(<<ChatMessage("system", "s0")>>)},
        rs \in BOOLEAN, lp \in BOOLEAN }

NoConfig ==
    [prompt |-> "None", messages |-> NoneMessages, only_completed |-> TRUE,
     return_sorted |-> FALSE, logprobs |-> FALSE,
     model |-> "None", temperature |-> "None", api_key |-> "None"]

\* A provider choice: message.content, finish_reason, logprobs.  "None" is
\* Python's None, "Empty" a falsy container, "lp1" real log-probability data.
Choice ==
    [content : {"A", "B"}, finish_reason : {"stop", "length", "None"},
     logprobs : {"None", "Empty", "lp1"}]

RECURSIVE SeqsUpTo(_, _)
SeqsUpTo(S, n) ==
    IF n = 0 THEN {<<>>}
    ELSE LET prev == SeqsUpTo(S, n - 1)
         IN  prev \cup {Append(s, x) : s \in {q \in prev : Len(q) = n - 1}, x \in S}

ChoiceLists == SeqsUpTo(Choice, MaxChoices)

\* The responses the provider returns in the call life cycle.
SampleResponses ==
    { <<[content |-> "A", finish_reason |-> "stop", logprobs |-> "lp1"]>>,
      <<[content |-> "A", finish_reason |-> "length", logprobs |-> "None"],
        [content |-> "B", finish_reason |-> "stop", logprobs |-> "Empty"]>> }

\* **kwargs of a call: a map from keyword to value.
KwValue == [temperature |-> "0.2", max_tokens |-> "64"]
Kwargs == { [k \in K |-> KwValue[k]] : K \in {{}, {"temperature"}, {"max_tokens"}} }
NoKwargs == [k \in {} |-> "None"]

\* ------------------------------------------------------------------- state
VARIABLES
    constructed,   \* the clients that exist
    llm_params,    \* self.llm_params of each client
    history,       \* LLM.history, the class attribute
    pc,            \* position of each caller thread
    local,         \* the frame of each thread's current call
    invoked,       \* per client: prompts of the calls started, in order
    passed,        \* per client: prompts of the calls past the asserts
    initial,       \* per client: the messages it was constructed with
    msg_by,        \* per client: the call that appended each message
    hist_by,       \* the call that appended each history entry
    ncalls         \* calls started so far

vars == <<constructed, llm_params, history, pc, local, invoked, passed,
          initial, msg_by, hist_by, ncalls>>

ghosts == <<invoked, passed, initial, msg_by, hist_by>>

None == <<>>
Some(x) == <<x>>

IdleFrame ==
    [self |-> "None", prompt |-> "None", only_completed |-> TRUE,
     kwargs |-> NoKwargs, sent |-> None, response |-> None,
     choices |-> None, result |-> None, outcome |-> "None", id |-> 0,
     entry_params |-> NoConfig, entry_history |-> <<>>]

\* self.history of an instance: no instance attribute is ever assigned, so
\* the lookup falls through to the class attribute.
History(c) == history

\* ----------------------------------------------------------- pure helpers
\* LLMModelParams.to_json: the configuration as keyword arguments.
ToJson(p, ignore_sensitive) ==
    LET keys == IF ignore_sensitive THEN {"model", "messages", "temperature"}
                ELSE {"model", "messages", "temperature", "api_key"}
    IN  [k \in keys |->
            CASE k = "model" -> p.model
              [] k = "messages" -> p.messages.items
              [] k = "temperature" -> p.temperature
              [] k = "api_key" -> p.api_key]

\* f(**a, **b): Python raises TypeError when a keyword occurs twice.
KeywordClash(a, b) == DOMAIN a \cap DOMAIN b # {}

CallKeywords(a, b) ==
    [k \in DOMAIN a \cup DOMAIN b |-> IF k \in DOMAIN a THEN a[k] ELSE b[k]]

PreconditionsIgnoreSorted(p) == p.only_completed

\* the two asserts of __call__
PreconditionsHold(p) == p.only_completed /\ (p.return_sorted = FALSE)

\* `not self.llm_params.messages`
MessagesFalsy(m) == m.is_none \/ m.items = <<>>

KeepPrompt(p, prompt) == p

\* self.llm_params.prompt = prompt
UpdatePrompt(p, prompt) == [p EXCEPT !.prompt = prompt]

PrependMessage(items, prompt) == <<ChatMessage("user", prompt)>> \o items

AppendMessage(items, prompt) == Append(items, ChatMessage("user", prompt))

HistoryEntry(prompt, response, kwargs, p) ==
    [prompt |-> prompt, response |-> [choices |-> response],
     raw_kwargs |-> kwargs, kwargs |-> ToJson(p, TRUE)]

PrependHistory(h, e) == <<e>> \o h

AppendHistory(h, e) == Append(h, e)

filter_without_fallback(choices) ==
    SelectSeq(choices, LAMBDA c : c.finish_reason # "length")

filter_only_completed(choices) ==
    LET filtered_choices == SelectSeq(choices, LAMBDA c : c.finish_reason # "length")
    IN  IF Len(filtered_choices) # 0 THEN filtered_choices ELSE choices

get_text_from_choice(choice) == choice.content

Truthy(lp) == lp \notin {"None", "Empty"}

TransformChoiceRawLogprobs(choice, add_logprobs) ==
    IF add_logprobs
    THEN [text |-> get_text_from_choice(choice), logprobs |-> choice.logprobs]
    ELSE [text |-> get_text_from_choice(choice)]

TransformChoice(choice, add_logprobs) ==
    IF add_logprobs
    THEN [text |-> get_text_from_choice(choice),
          logprobs |-> IF Truthy(choice.logprobs) THEN choice.logprobs ELSE "None"]
    ELSE [text |-> get_text_from_choice(choice)]

transform_choices_to_dspy_model_response(choices, add_logprobs) ==
    [i \in 1..Len(choices) |-> TransformChoice(choices[i], add_logprobs)]

\* ----------------------------------------------------------------- actions
Goto(t, label) == pc' = [pc EXCEPT ![t] = label]

\* LLM.__init__
Construct(c, cfg) ==
    /\ c \notin constructed
    /\ constructed' = constructed \cup {c}
    /\ llm_params' = [llm_params EXCEPT ![c] = cfg]
    /\ initial' = [initial EXCEPT ![c] = cfg.messages.items]
    /\ UNCHANGED <<history, pc, local, invoked, passed, msg_by, hist_by, ncalls>>

\* __call__ entry: self.llm_params.only_completed = only_completed
Call(t, c, prompt, only_completed, kwargs) ==
    /\ pc[t] = "idle"
    /\ c \in constructed
    /\ ncalls < MaxCalls
    /\ ncalls' = ncalls + 1
    /\ local' = [local EXCEPT ![t] =
          [IdleFrame EXCEPT !.self = c, !.prompt = prompt,
                            !.only_completed = only_completed,
                            !.kwargs = kwargs, !.id = ncalls + 1,
                            !.entry_params = llm_params[c],
                            !.entry_history = History(c)]]
    /\ llm_params' = [llm_params EXCEPT ![c].only_completed = only_completed]
    /\ invoked' = [invoked EXCEPT ![c] = Append(@, prompt)]
    /\ Goto(t, "assert")
    /\ UNCHANGED <<constructed, history, passed, initial, msg_by, hist_by>>

\* the asserts hold
AssertPass(t) ==
    /\ pc[t] = "assert"
    /\ PreconditionsHold(llm_params[local[t].self])
    /\ passed' = [passed EXCEPT ![local[t].self] = Append(@, local[t].prompt)]
    /\ Goto(t, "set_prompt")
    /\ UNCHANGED <<constructed, llm_params, history, local, invoked, initial,
                   msg_by, hist_by, ncalls>>

\* an assert fails: AssertionError leaves __call__
AssertFail(t) ==
    /\ pc[t] = "assert"
    /\ ~PreconditionsHold(llm_params[local[t].self])
    /\ local' = [local EXCEPT ![t].outcome = "AssertionError"]
    /\ Goto(t, "done")
    /\ UNCHANGED <<constructed, llm_params, history, ghosts, ncalls>>

\* update_messages_with_prompt: self.llm_params.prompt = prompt
SetPrompt(t) ==
    /\ pc[t] = "set_prompt"
    /\ llm_params' = [llm_params EXCEPT ![local[t].self] =
          UpdatePrompt(@, local[t].prompt)]
    /\ Goto(t, "check_messages")
    /\ UNCHANGED <<constructed, history, local, ghosts, ncalls>>

\* update_messages_with_prompt: if not self.llm_params.messages
CheckMessages(t) ==
    /\ pc[t] = "check_messages"
    /\ IF MessagesFalsy(llm_params[local[t].self].messages)
       THEN Goto(t, "init_messages")
       ELSE Goto(t, "append")
    /\ UNCHANGED <<constructed, llm_params, history, local, ghosts, ncalls>>

\* update_messages_with_prompt: self.llm_params.messages = []
InitMessages(t) ==
    /\ pc[t] = "init_messages"
    /\ llm_params' = [llm_params EXCEPT ![local[t].self].messages = ListMessages(<<>>)]
    /\ msg_by' = [msg_by EXCEPT ![local[t].self] = <<>>]
    /\ Goto(t, "append")
    /\ UNCHANGED <<constructed, history, local, invoked, passed, initial,
                   hist_by, ncalls>>

\* update_messages_with_prompt: self.llm_params.messages.append(...)
AppendUserMessage(t) ==
    /\ pc[t] = "append"
    /\ llm_params' = [llm_params EXCEPT ![local[t].self].messages =
          ListMessages(AppendMessage(@.items, local[t].prompt))]
    /\ msg_by' = [msg_by EXCEPT ![local[t].self] = Append(@, local[t].id)]
    /\ Goto(t, "completion")
    /\ UNCHANGED <<constructed, history, local, invoked, passed, initial,
                   hist_by, ncalls>>

\* basic_request: litellm.completion(**self.llm_params.to_json(), **kwargs)
Completion(t) ==
    /\ pc[t] = "completion"
    /\ LET json == ToJson(llm_params[local[t].self], FALSE)
       IN  IF KeywordClash(json, local[t].kwargs)
           THEN /\ local' = [local EXCEPT ![t].outcome = "TypeError"]
                /\ Goto(t, "done")
           ELSE /\ local' = [local EXCEPT ![t].sent =
                                 Some(CallKeywords(json, local[t].kwargs))]
                /\ Goto(t, "waiting")
    /\ UNCHANGED <<constructed, llm_params, history, ghosts, ncalls>>

\* the provider returns a response
ProviderReturn(t, choices) ==
    /\ pc[t] = "waiting"
    /\ local' = [local EXCEPT ![t].response = Some(choices)]
    /\ Goto(t, "record")
    /\ UNCHANGED <<constructed, llm_params, history, ghosts, ncalls>>

\* the provider call raises
ProviderError(t) ==
    /\ pc[t] = "waiting"
    /\ local' = [local EXCEPT ![t].outcome = "ProviderError"]
    /\ Goto(t, "done")
    /\ UNCHANGED <<constructed, llm_params, history, ghosts, ncalls>>

\* basic_request: self.history.append({...})
Record(t) ==
    /\ pc[t] = "record"
    /\ history' = AppendHistory(History(local[t].self),
          HistoryEntry(local[t].prompt, local[t].response[1], local[t].kwargs,
                       llm_params[local[t].self]))
    /\ hist_by' = Append(hist_by, local[t].id)
    /\ Goto(t, "filter")
    /\ UNCHANGED <<constructed, llm_params, local, invoked, passed, initial,
                   msg_by, ncalls>>

\* __call__: choices = filter_only_completed(...) if only_completed else ...
Filter(t) ==
    /\ pc[t] = "filter"
    /\ local' = [local EXCEPT ![t].choices =
          Some(IF llm_params[local[t].self].only_completed
               THEN filter_only_completed(local[t].response[1])
               ELSE local[t].response[1])]
    /\ Goto(t, "transform")
    /\ UNCHANGED <<constructed, llm_params, history, ghosts, ncalls>>

\* __call__: choices = transform_choices_to_dspy_model_response(...)
Transform(t) ==
    /\ pc[t] = "transform"
    /\ local' = [local EXCEPT
          ![t].result = Some(transform_choices_to_dspy_model_response(
                                local[t].choices[1],
                                llm_params[local[t].self].logprobs)),
          ![t].outcome = "ok"]
    /\ Goto(t, "done")
    /\ UNCHANGED <<constructed, llm_params, history, ghosts, ncalls>>

\* the call has returned or raised; the caller drops the frame
Return(t) ==
    /\ pc[t] = "done"
    /\ local' = [local EXCEPT ![t] = IdleFrame]
    /\ Goto(t, "idle")
    /\ UNCHANGED <<constructed, llm_params, history, ghosts, ncalls>>

Step(t) ==
    \/ \E c \in Clients, p \in Prompts, oc \in BOOLEAN, kw \in Kwargs :
          Call(t, c, p, oc, kw)
    \/ AssertPass(t)
    \/ AssertFail(t)
    \/ SetPrompt(t)
    \/ CheckMessages(t)
    \/ InitMessages(t)
    \/ AppendUserMessage(t)
    \/ Completion(t)
    \/ \E r \in SampleResponses : ProviderReturn(t, r)
    \/ ProviderError(t)
    \/ Record(t)
    \/ Filter(t)
    \/ Transform(t)
    \/ Return(t)

InitShared ==
    /\ constructed = {}
    /\ llm_params = [c \in Clients |-> NoConfig]
    /\ history = <<>>
    /\ invoked = [c \in Clients |-> <<>>]
    /\ passed = [c \in Clients |-> <<>>]
    /\ initial = [c \in Clients |-> <<>>]
    /\ msg_by = [c \in Clients |-> <<>>]
    /\ hist_by = <<>>
    /\ ncalls = 0

\* ------------------------------------------------- sequential life cycle
Init ==
    /\ InitShared
    /\ pc = [t \in Threads |-> "idle"]
    /\ local = [t \in Threads |-> IdleFrame]

Next ==
    \/ \E c \in Clients, cfg \in Configs : Construct(c, cfg)
    \/ Step("t1")

Spec == Init /\ [][Next]_vars

\* ------------------------------------------------- concurrent life cycle
\* One client shared by the caller threads.
InitConc ==
    /\ \E cfg \in Configs :
          /\ llm_params = [c \in Clients |-> IF c = "c1" THEN cfg ELSE NoConfig]
          /\ initial = [c \in Clients |-> IF c = "c1" THEN cfg.messages.items ELSE <<>>]
    /\ constructed = {"c1"}
    /\ history = <<>>
    /\ invoked = [c \in Clients |-> <<>>]
    /\ passed = [c \in Clients |-> <<>>]
    /\ msg_by = [c \in Clients |-> <<>>]
    /\ hist_by = <<>>
    /\ ncalls = 0
    /\ pc = [t \in Threads |-> "idle"]
    /\ local = [t \in Threads |-> IdleFrame]

NextConc == \E t \in Threads : Step(t)

SpecConc == InitConc /\ [][NextConc]_vars

\* ------------------------------------------- post-processing of a response
\* The first call on a client, past self.history.append, for every choice
\* list the provider can have returned.
InitPost ==
    \E cfg \in {c \in Configs : ~c.return_sorted /\ c.messages.is_none},
       r \in ChoiceLists :
       LET after == [UpdatePrompt(cfg, "p1") EXCEPT
                        !.messages = ListMessages(AppendMessage(<<>>, "p1"))]
       IN  /\ constructed = {"c1"}
           /\ llm_params = [c \in Clients |-> IF c = "c1" THEN after ELSE NoConfig]
           /\ history = AppendHistory(<<>>, HistoryEntry("p1", r, NoKwargs, after))
           /\ pc = [t \in Threads |-> IF t = "t1" THEN "filter" ELSE "idle"]
           /\ local = [t \in Threads |->
                 IF t = "t1"
                 THEN [IdleFrame EXCEPT
                          !.self = "c1", !.prompt = "p1", !.id = 1,
                          !.sent = Some(CallKeywords(ToJson(after, FALSE), NoKwargs)),
                          !.response = Some(r), !.entry_params = cfg]
                 ELSE IdleFrame]
           /\ invoked = [c \in Clients |-> IF c = "c1" THEN <<"p1">> ELSE <<>>]
           /\ passed = [c \in Clients |-> IF c = "c1" THEN <<"p1">> ELSE <<>>]
           /\ initial = [c \in Clients |-> <<>>]
           /\ msg_by = [c \in Clients |-> IF c = "c1" THEN <<1>> ELSE <<>>]
           /\ hist_by = <<1>>
           /\ ncalls = 1

NextPost == Filter("t1") \/ Transform("t1") \/ Return("t1")

SpecPost == InitPost /\ [][NextPost]_vars

\* ------------------------------------------------------------ the claims
IsPrefix(s, q) == Len(s) <= Len(q) /\ \A i \in 1..Len(s) : s[i] = q[i]

Last(s) == s[Len(s)]

Active == {t \in Threads : pc[t] # "idle"}

Quiescent(c) == \A t \in Active : local[t].self # c

UserMessages(ps) == [i \in 1..Len(ps) |-> ChatMessage("user", ps[i])]

Messages(c) == llm_params[c].messages.items

Pos(s, x) == CHOOSE i \in 1..Len(s) : s[i] = x

Range(s) == {s[i] : i \in 1..Len(s)}

\* the indices of the choices the filter is to keep: those not cut by
\* length, or all of them when every one was cut
Kept(choices) ==
    LET ok == {i \in 1..Len(choices) : choices[i].finish_reason # "length"}
    IN  IF ok = {} THEN 1..Len(choices) ELSE ok

\* the index of the j-th kept choice
Source(choices, j) ==
    CHOOSE i \in Kept(choices) : Cardinality({k \in Kept(choices) : k <= i}) = j

Returned(t) == pc[t] = "done" /\ local[t].outcome = "ok"

\* C1: a call that ends having recorded a provider response has made the
\* history exactly one entry longer, a call that ends with an error has left
\* its length alone, and at every point of a call the history of its start is
\* a prefix of the current history.
C1_HistoryGrowsByOne ==
    \A t \in Active :
        LET f == local[t]
        IN  /\ IsPrefix(f.entry_history, History(f.self))
            /\ pc[t] = "done" =>
                  Len(History(f.self)) =
                     Len(f.entry_history) + (IF f.outcome = "ok" THEN 1 ELSE 0)

C1_Witness ==
    \E t \in Threads :
        /\ Returned(t)
        /\ Len(local[t].entry_history) = 1
        /\ Len(History(local[t].self)) = 2

\* C2 (as stated): whenever no call is in progress on a client, its messages
\* are the messages it was constructed with followed by one user message per
\* call started on it, in call order.
C2_EveryCallAppends ==
    \A c \in constructed :
        Quiescent(c) => Messages(c) = initial[c] \o UserMessages(invoked[c])

\* C2 (amended): whenever no call is in progress on a client, its messages
\* are the messages it was constructed with followed by one user message per
\* call that passed the precondition check, in call order.
C2_PassedCallsAppend ==
    \A c \in constructed :
        Quiescent(c) => Messages(c) = initial[c] \o UserMessages(passed[c])

C2_Witness ==
    \E c \in constructed :
        /\ Quiescent(c)
        /\ initial[c] # <<>>
        /\ passed[c] = <<"p2", "p1">>
        /\ Len(Messages(c)) = 3

\* C3: a call started with return_sorted set in the configuration, or with
\* only_completed = False, never gets past the asserts, ends with an
\* AssertionError, passes nothing to the provider and leaves prompt, messages
\* and history as they were when it started.
C3_PreconditionFailsEarly ==
    \A t \in Active :
        LET f == local[t]
            p == llm_params[f.self]
        IN  (f.entry_params.return_sorted \/ ~f.only_completed) =>
               /\ pc[t] \in {"assert", "done"}
               /\ pc[t] = "done" => f.outcome = "AssertionError"
               /\ f.sent = None
               /\ p.prompt = f.entry_params.prompt
               /\ p.messages = f.entry_params.messages
               /\ History(f.self) = f.entry_history

C3_Witness ==
    \E t \in Threads :
        /\ pc[t] = "done"
        /\ local[t].entry_params.return_sorted
        /\ local[t].only_completed
        /\ local[t].outcome = "AssertionError"
        /\ ~local[t].entry_params.messages.is_none

\* C4: a call whose provider call raised ends with no result and no new
\* history entry, with the configuration's prompt equal to the call's prompt
\* and its messages equal to those of the call's start followed by the user
\* message of the call's prompt.
C4_NoRollbackOnProviderError ==
    \A t \in Threads :
        LET f == local[t]
            p == llm_params[f.self]
        IN  (pc[t] = "done" /\ f.outcome = "ProviderError") =>
               /\ f.result = None
               /\ History(f.self) = f.entry_history
               /\ p.prompt = f.prompt
               /\ ~p.messages.is_none
               /\ p.messages.items =
                     f.entry_params.messages.items \o UserMessages(<<f.prompt>>)

C4_Witness ==
    \E t \in Threads :
        /\ pc[t] = "done"
        /\ local[t].outcome = "ProviderError"
        /\ local[t].entry_params.prompt \notin {"None", local[t].prompt}
        /\ Len(Messages(local[t].self)) = 3

\* C5: a client has an empty history when it is constructed, and a step of a
\* call on one client leaves the history seen through every other client
\* unchanged.
C5_HistoryPerInstance ==
    [][ /\ \A c \in Clients :
              (c \notin constructed /\ c \in constructed') => History(c)' = <<>>
        /\ \A t \in Threads, c \in constructed :
              (pc[t] = "record" /\ pc'[t] # "record" /\ local[t].self # c) =>
                 History(c)' = History(c) ]_vars

\* C6: for any two calls on a client whose user messages are in messages and
\* whose entries are in history, the messages are in the order of the
\* entries.
C6_OneInvocationOrder ==
    \A c \in constructed :
        \A a, b \in Range(msg_by[c]) \cap Range(hist_by) :
            (Pos(msg_by[c], a) < Pos(msg_by[c], b)) <=>
               (Pos(hist_by, a) < Pos(hist_by, b))

\* C7: a call that returns gives one entry per choice whose finish reason is
\* not "length" (per choice, when every choice has that finish reason), in
\* the provider's order, each with the text of its choice; a non-empty choice
\* list gives a non-empty result.
C7_FilterKeepsCompleted ==
    \A t \in Threads :
        Returned(t) /\ local[t].only_completed =>
            LET choices == local[t].response[1]
                result == local[t].result[1]
            IN  /\ Len(result) = Cardinality(Kept(choices))
                /\ \A j \in 1..Len(result) :
                      result[j].text = choices[Source(choices, j)].content
                /\ choices # <<>> => result # <<>>

C7_Witness ==
    \E t \in Threads :
        /\ Returned(t)
        /\ Len(local[t].response[1]) = 2
        /\ local[t].response[1][1].finish_reason = "length"
        /\ local[t].response[1][2].finish_reason = "None"
        /\ Len(local[t].result[1]) = 1

HasLogprobs(entry) == "logprobs" \in DOMAIN entry

C9_KwargsOverride ==
    \A t \in Threads :
        LET f == local[t]
        IN  pc[t] \in {"waiting", "record", "filter", "transform", "done"}
            /\ f.outcome # "AssertionError" =>
               /\ f.sent # None
               /\ DOMAIN f.sent[1] =
                     DOMAIN ToJson(llm_params[f.self], FALSE) \cup DOMAIN f.kwargs
               /\ \A k \in DOMAIN f.kwargs : f.sent[1][k] = f.kwargs[k]

\* C10: whenever no call is in progress on a client and some call on it has
\* passed the asserts, the last message is a user message whose content is
\* the configuration's prompt.
C10_PromptInSync ==
    \A c \in constructed :
        (Quiescent(c) /\ passed[c] # <<>>) =>
            /\ Messages(c) # <<>>
            /\ Last(Messages(c)).role = "user"
            /\ Last(Messages(c)).content = llm_params[c].prompt

====
